---- MODULE Spec2Model ----
(***************************************************************************)
(* Model of the articles REST service (package main, package db) and of    *)
(* the document store it talks to.  One request handler runs per request   *)
(* slot; every store call of a handler is one atomic step, the Go code     *)
(* between two store calls is folded into the step that makes the call.    *)
(* The search handler reads no document through the key space: its store   *)
(* call is answered from the search index, whose reply is any value of the  *)
(* reply's dynamic type.                                                    *)
(***************************************************************************)
EXTENDS Integers, Sequences, FiniteSets, TLC

\* ------------------------------------------------------------------ bounds
\* math.MaxInt of the modelled build (scaled down); uint is one bit wider.
IntMax == 2
\* Longest JSON array a create request carries.
MaxBatch == 2
\* Most parameters a search request carries.
MaxParams == 2
\* Longest results list of a search reply.
MaxHits == 2

UintMax == 2 * IntMax + 1
UintMod == UintMax + 1

\* Concurrent request slots (one goroutine per in-flight request).
Reqs == {"r1", "r2"}

\* ------------------------------------------------------------ strings
\* A string is a sequence of tokens; the key prefix is one token.
keysPrefix == <<"article:">>

Digits == <<"0", "1", "2", "3", "4", "5", "6", "7", "8", "9">>

DigitVal(c) == CHOOSE d \in 0..9 : Digits[d + 1] = c

IsDigit(c) == \E d \in 0..9 : Digits[d + 1] = c

\* fmt.Sprintf("%d", n) for n >= 0.
RECURSIVE FormatNat(_)
FormatNat(n) == IF n < 10 THEN <<Digits[n + 1]>>
                ELSE FormatNat(n \div 10) \o <<Digits[(n % 10) + 1]>>

\* fmt.Sprintf("%d", n) for a signed n.
FormatInt(n) == IF n < 0 THEN <<"-">> \o FormatNat(0 - n) ELSE FormatNat(n)

\* Value of a non-empty all-digit string, saturating just above the int range
\* (strconv reports a range error from there on).
RECURSIVE DigitsValue(_, _)
DigitsValue(s, acc) ==
    IF s = <<>> THEN acc
    ELSE LET v == acc * 10 + DigitVal(Head(s))
         IN  DigitsValue(Tail(s), IF v > IntMax + 1 THEN IntMax + 2 ELSE v)

\* strconv.Atoi: optional sign, then one or more decimal digits, in int range.
Atoi(s) ==
    LET neg  == s # <<>> /\ Head(s) = "-"
        body == IF s # <<>> /\ Head(s) \in {"+", "-"} THEN Tail(s) ELSE s
    IN  IF body = <<>> \/ \E i \in 1..Len(body) : ~IsDigit(body[i])
        THEN [ok |-> FALSE, val |-> 0]
        ELSE LET v == DigitsValue(body, 0)
             IN  IF (~neg /\ v > IntMax) \/ (neg /\ v > IntMax + 1)
                 THEN [ok |-> FALSE, val |-> 0]
                 ELSE [ok |-> TRUE, val |-> IF neg THEN 0 - v ELSE v]

\* The conversion uint(id) of an int.
ToUint(i) == (i + UintMod) % UintMod

\* strings.TrimPrefix.
TrimPrefix(s, p) ==
    IF Len(s) >= Len(p) /\ SubSeq(s, 1, Len(p)) = p
    THEN SubSeq(s, Len(p) + 1, Len(s))
    ELSE s

\* fmt.Sprintf("%s%d", keysPrefix, id), the key create, update and delete use.
KeyOfId(id) == keysPrefix \o FormatInt(id)

\* fmt.Sprintf("%s%s", keysPrefix, id), the key get uses.
KeyOfPath(p) == keysPrefix \o p

\* ------------------------------------------------------------ records
\* A []string: Go tells a nil slice (JSON null) from an empty one (JSON []).
NilSlice == [isNil |-> TRUE, elems |-> <<>>]

Slice(elems) == [isNil |-> FALSE, elems |-> elems]

\* What a client sends beside the identifier: a full payload, a minimal one
\* (optional fields left out) and one that misses the required title.
Payloads ==
    { [Title |-> "A", Content |-> "c", Author |-> "x", Tags |-> Slice(<<"go", "rust">>)],
      [Title |-> "B", Content |-> "", Author |-> "", Tags |-> NilSlice],
      [Title |-> "", Content |-> "c", Author |-> "", Tags |-> Slice(<<>>)] }

\* Identifiers a client may put in a payload: 0 (omitted), the int range, and
\* one value that only fits the unsigned type.
ClientIds == 0..(IntMax + 1)

\* type Article struct, as a client can send it.
Article ==
    { [Id |-> n, Title |-> p.Title, Content |-> p.Content, Author |-> p.Author,
       Tags |-> p.Tags] : n \in ClientIds, p \in Payloads }

NoArticle == [Id |-> 0, Title |-> "", Content |-> "", Author |-> "", Tags |-> NilSlice]

\* A JSON value of a request body: one that decodes into an Article, or one
\* that does not (wrong field type, negative or fractional id, ...).
Decodable(a) == [decodes |-> TRUE, value |-> a]

Undecodable == [decodes |-> FALSE, value |-> NoArticle]

\* validate.Struct(article): Id and Title are `required`, the rest `omitempty`.
ValidateStruct(a) == a.Id # 0 /\ a.Title # ""

\* json.Marshal(article): the JSON object under the struct's json tags; a
\* slice is written as null or as a bracketed list.
Marshal(a) ==
    [id |-> a.Id, title |-> a.Title, content |-> a.Content, author |-> a.Author,
     tags |-> IF a.Tags.isNil THEN <<"null">>
              ELSE <<"[">> \o a.Tags.elems \o <<"]">>]

\* json.Unmarshal(doc, &article).
Unmarshal(d) ==
    [Id |-> d.id, Title |-> d.title, Content |-> d.content, Author |-> d.author,
     Tags |-> IF d.tags = <<"null">> THEN NilSlice
              ELSE Slice(SubSeq(d.tags, 2, Len(d.tags) - 1))]

\* What a handler writes: handleError's CustomOutput with its status code, or
\* a 200 with the articles of the body (none for create and delete).
ErrorResponse(status, err) == [status |-> status, error |-> err, body |-> <<>>]

OkResponse(body) == [status |-> "OK", error |-> "", body |-> body]

\* ------------------------------------------------------------ store calls
Max2(a, b) == IF a >= b THEN a ELSE b

\* slices.Max over a non-empty slice.
RECURSIVE SlicesMax(_)
SlicesMax(s) == IF Len(s) = 1 THEN s[1] ELSE Max2(s[1], SlicesMax(Tail(s)))

\* The orders in which a SCAN can return the keys of a key set.
Orders(S) ==
    { s \in [1..Cardinality(S) -> S] :
        \A i, j \in 1..Cardinality(S) : i # j => s[i] # s[j] }

HasPrefix(s, p) == Len(s) >= Len(p) /\ SubSeq(s, 1, Len(p)) = p

\* db.GetAllKeys: every key matching prefix*, in any order.
GetAllKeys(st, prefix) == Orders({ k \in DOMAIN st : HasPrefix(k, prefix) })

\* db.JSONGet: the document text, or the empty string for redis.Nil.
JSONGet(st, key) == IF key \in DOMAIN st THEN <<st[key]>> ELSE <<>>

\* db.Exists asked for the identifier instead of the key: never found.
ExistsBareId(st, key) == IF TrimPrefix(key, keysPrefix) \in DOMAIN st THEN 1 ELSE 0

\* db.Exists that reports every key as present.
ExistsAlways(st, key) == 1

\* db.Exists.
Exists(st, key) == IF key \in DOMAIN st THEN 1 ELSE 0

\* JSON.SET key $ value.
JSONSet(st, key, value) ==
    [k \in DOMAIN st \cup {key} |-> IF k = key THEN value ELSE st[k]]

\* A multi-set that skips the keys that already hold a document.
RECURSIVE JSONMSetIfAbsent(_, _)
JSONMSetIfAbsent(st, setArgs) ==
    IF setArgs = <<>> THEN st
    ELSE JSONMSetIfAbsent(
             IF Head(setArgs).Key \in DOMAIN st THEN st
             ELSE JSONSet(st, Head(setArgs).Key, Head(setArgs).Value),
             Tail(setArgs))

\* db.JSONMSetArgs: JSON.MSET applies the triples in order.
RECURSIVE JSONMSetArgs(_, _)
JSONMSetArgs(st, setArgs) ==
    IF setArgs = <<>> THEN st
    ELSE JSONMSetArgs(JSONSet(st, Head(setArgs).Key, Head(setArgs).Value),
                      Tail(setArgs))

\* db.Del.
Del(st, key) == [k \in DOMAIN st \ {key} |-> st[k]]

\* The ids getAutomatedId parses out of the scanned keys, or the first
\* strconv error.
RECURSIVE ParseIds(_)
ParseIds(existingKeys) ==
    IF existingKeys = <<>> THEN [ok |-> TRUE, ids |-> <<>>]
    ELSE LET r == Atoi(TrimPrefix(Head(existingKeys), keysPrefix))
         IN  IF ~r.ok THEN [ok |-> FALSE, ids |-> <<>>]
             ELSE LET rest == ParseIds(Tail(existingKeys))
                  IN  [ok |-> rest.ok,
                       ids |-> IF rest.ok THEN <<ToUint(r.val)>> \o rest.ids
                               ELSE <<>>]

\* getAutomatedId, from the scan result on: maxID + 1 in uint arithmetic, or
\* 1 when there is no key.
getAutomatedId(existingKeys) ==
    LET p == ParseIds(existingKeys)
    IN  IF ~p.ok THEN [ok |-> FALSE, id |-> 0]
        ELSE IF Len(p.ids) > 0
             THEN [ok |-> TRUE, id |-> (SlicesMax(p.ids) + 1) % UintMod]
             ELSE [ok |-> TRUE, id |-> 1]

\* ------------------------------------------------------------ requests
RECURSIVE SeqsUpTo(_, _)
SeqsUpTo(S, n) ==
    IF n = 0 THEN {<<>>}
    ELSE LET shorter == SeqsUpTo(S, n - 1)
         IN  shorter \cup { Append(s, x) : s \in { t \in shorter : Len(t) = n - 1 }, x \in S }

Elems == { Decodable(a) : a \in Article } \cup {Undecodable}

\* Request bodies: a JSON array, a single JSON object, another JSON value
\* (a string, a number, ...), or nothing at all.
Bodies ==
    { [kind |-> "array", items |-> s] : s \in SeqsUpTo(Elems, MaxBatch) }
    \cup { [kind |-> "object", items |-> <<e>>] : e \in Elems }
    \cup { [kind |-> k, items |-> <<>>] : k \in {"other", "empty"} }

\* The {id} path segment of a request: the decimal identifiers, one with a
\* leading zero, a negative one and one that is no number.
PathIds ==
    { FormatNat(n) : n \in 1..(IntMax + 1) } \cup { <<"0", "1">>, <<"-", "1">>, <<"x">> }

NoReq == [op |-> "none", path |-> <<>>, body |-> [kind |-> "empty", items |-> <<>>]]

\* The error value nil.
NilError == "<nil>"

\* ------------------------------------------------------------ search: schema
Lowers == <<"a", "b", "c", "d", "e", "f", "g", "h", "i", "j", "k", "l", "m",
            "n", "o", "p", "q", "r", "s", "t", "u", "v", "w", "x", "y", "z">>

Uppers == <<"A", "B", "C", "D", "E", "F", "G", "H", "I", "J", "K", "L", "M",
            "N", "O", "P", "Q", "R", "S", "T", "U", "V", "W", "X", "Y", "Z">>

\* unicode.ToLower of one character.
ToLowerRune(c) ==
    IF \E i \in 1..Len(Uppers) : Uppers[i] = c
    THEN Lowers[CHOOSE i \in 1..Len(Uppers) : Uppers[i] = c]
    ELSE c

\* strings.ToLower; a name is spelled character by character.
ToLower(s) == [i \in 1..Len(s) |-> ToLowerRune(s[i])]

\* reflect.TypeOf(Article{}): the fields with their kinds and json tags.
ArticleType ==
    << [Name |-> "Id", Kind |-> "Uint", Tag |-> <<"i", "d">>],
       [Name |-> "Title", Kind |-> "String", Tag |-> <<"t", "i", "t", "l", "e">>],
       [Name |-> "Content", Kind |-> "String",
        Tag |-> <<"c", "o", "n", "t", "e", "n", "t">>],
       [Name |-> "Author", Kind |-> "String", Tag |-> <<"a", "u", "t", "h", "o", "r">>],
       [Name |-> "Tags", Kind |-> "Slice", Tag |-> <<"t", "a", "g", "s">>] >>

searchIndexName == <<"idx_articles">>

\* The kind labels of package db that buildSearchParams assigns.
ArrayType == "Slice"

StringType == "String"

NumberType == "Number"

BooleanType == "Boolean"

ObjectType == "Object"

\* structFieldsJsonTags: the json tag of every field, in field order.
structFieldsJsonTags(givenStruct) == [i \in 1..Len(givenStruct) |-> givenStruct[i].Tag]

\* slices.Contains.
Contains(s, x) == \E i \in 1..Len(s) : s[i] = x

\* The error values of the search handler: fmt.Errorf's format and arguments.
Errorf(format, param, expected) ==
    [format |-> format, param |-> param, expected |-> expected]

NilErrorf == Errorf(NilError, <<>>, <<>>)

\* isQueryParamsExpected that reports any provided name once one of them is
\* unexpected.
isQueryParamsExpectedAnyName(queryParams, expectedParams) ==
    LET unexpected == { p \in DOMAIN queryParams : ~Contains(expectedParams, p) }
    IN  IF unexpected = {} THEN {NilErrorf}
        ELSE { Errorf("query provided is not one of the following parameter",
                      p, expectedParams) : p \in DOMAIN queryParams }

\* isQueryParamsExpected: the error for the first provided name that is not
\* among expectedParams; the range over the map visits the names in any
\* order, so every unexpected name can be that first one.
isQueryParamsExpected(queryParams, expectedParams) ==
    LET unexpected == { p \in DOMAIN queryParams : ~Contains(expectedParams, p) }
    IN  IF unexpected = {} THEN {NilErrorf}
        ELSE { Errorf("query provided is not one of the following parameter",
                      p, expectedParams) : p \in unexpected }

\* The switch on field.Type.Kind().
KindType(kind) ==
    CASE kind = "Slice" -> ArrayType
      [] kind = "String" -> StringType
      [] kind \in {"Int", "Int8", "Int16", "Int32", "Int64", "Uint", "Uint8",
                   "Uint16", "Uint32", "Uint64", "Float32", "Float64"} -> NumberType
      [] kind = "Bool" -> BooleanType
      [] kind = "Map" -> ObjectType
      [] OTHER -> StringType

\* The body of buildSearchParams' loop for the names of `order`: a name that
\* is the json tag of no field is skipped.
RECURSIVE BuildFrom(_, _, _)
BuildFrom(providedParams, order, givenStruct) ==
    IF order = <<>> THEN <<>>
    ELSE LET param == Head(order)
             rest  == BuildFrom(providedParams, Tail(order), givenStruct)
             found == \E i \in 1..Len(givenStruct) : givenStruct[i].Tag = param
         IN  IF ~found THEN rest
             ELSE LET field == givenStruct[CHOOSE i \in 1..Len(givenStruct) :
                                   /\ givenStruct[i].Tag = param
                                   /\ \A j \in 1..(i - 1) : givenStruct[j].Tag # param]
                  IN  << [Param |-> ToLower(param), Type |-> KindType(field.Kind),
                          Value |-> providedParams[param]] >> \o rest

\* buildSearchParams that takes only the first value of a parameter.
buildSearchParamsFirstValue(providedParams, givenStruct) ==
    { BuildFrom([p \in DOMAIN providedParams |-> <<Head(providedParams[p])>>],
                order, givenStruct) : order \in Orders(DOMAIN providedParams) }

\* buildSearchParams: one db.SearchParams per provided name, in the order the
\* range over the map visits the names.
buildSearchParams(providedParams, givenStruct) ==
    { BuildFrom(providedParams, order, givenStruct) :
        order \in Orders(DOMAIN providedParams) }

\* ------------------------------------------------------------ search: query
\* strings.Join.
RECURSIVE Join(_, _)
Join(elems, sep) ==
    IF elems = <<>> THEN <<>>
    ELSE IF Len(elems) = 1 THEN elems[1]
    ELSE elems[1] \o sep \o Join(Tail(elems), sep)

\* The argument of one filter with the set-valued label mistaken.
SearchTermArray(searchParam) ==
    IF searchParam.Type = "Array"
    THEN <<"@">> \o searchParam.Param \o <<":", "{">>
         \o Join(searchParam.Value, <<" ">>) \o <<"}">>
    ELSE <<"@">> \o searchParam.Param \o <<":">> \o Join(searchParam.Value, <<" ">>)

\* db.Search, the argument built for one filter.
SearchTerm(searchParam) ==
    IF searchParam.Type = "Slice"
    THEN <<"@">> \o searchParam.Param \o <<":", "{">>
         \o Join(searchParam.Value, <<" ">>) \o <<"}">>
    ELSE <<"@">> \o searchParam.Param \o <<":">> \o Join(searchParam.Value, <<" ">>)

\* db.Search, the command handed to redisClient.Do: one argument per filter
\* between the index name and the dialect option.
SearchQueries(indexName, filters) ==
    << <<"FT.SEARCH">>, indexName >>
    \o [i \in 1..Len(filters) |-> SearchTerm(filters[i])]
    \o << <<"DIALECT">>, <<"3">> >>

\* ------------------------------------------------------------ search: reply
\* The documents a reply of the store can carry.
HitArticles ==
    << [Id |-> 1, Title |-> "A", Content |-> "c", Author |-> "x",
        Tags |-> Slice(<<"go", "rust">>)],
       [Id |-> 2, Title |-> "B", Content |-> "", Author |-> "", Tags |-> NilSlice] >>

\* One value of a hit's extra_attributes: something that is no string, a
\* string that is no JSON array of articles, or the JSON array of some.
NotAString == [isString |-> FALSE, decodes |-> FALSE, items |-> <<>>]

NotAnArray == [isString |-> TRUE, decodes |-> FALSE, items |-> <<>>]

JsonArray(docs) ==
    [isString |-> TRUE, decodes |-> TRUE,
     items |-> [i \in 1..Len(docs) |-> Marshal(docs[i])]]

\* The extra_attributes a hit can carry, each map written as the list of its
\* values.
AttributeBags ==
    { <<NotAString>>, <<NotAnArray>>, <<JsonArray(<<>>)>>,
      <<JsonArray(<<HitArticles[1]>>)>>, <<JsonArray(<<HitArticles[2]>>)>>,
      <<JsonArray(HitArticles)>>,
      <<JsonArray(<<HitArticles[1]>>), JsonArray(<<HitArticles[2]>>)>> }

\* One element of the results list: something that is no map, a map whose
\* extra_attributes is no map (or absent), or a map with extra_attributes.
Hits ==
    { [isMap |-> FALSE, attrs |-> [isMap |-> FALSE, vals |-> <<>>]],
      [isMap |-> TRUE, attrs |-> [isMap |-> FALSE, vals |-> <<>>]] }
    \cup { [isMap |-> TRUE, attrs |-> [isMap |-> TRUE, vals |-> b]] : b \in AttributeBags }

\* topLevel["total_results"]: an int64, or anything else (absent included).
Totals ==
    { [isInt |-> FALSE, val |-> 0] } \cup { [isInt |-> TRUE, val |-> n] : n \in {-1, 0, 1} }

\* topLevel["results"]: a list of at most MaxHits elements, or anything else.
ResultLists ==
    { [isList |-> FALSE, hits |-> <<>>] }
    \cup { [isList |-> TRUE, hits |-> s] : s \in SeqsUpTo(Hits, MaxHits) }

NotAMapReply ==
    [isMap |-> FALSE, total |-> [isInt |-> FALSE, val |-> 0],
     results |-> [isList |-> FALSE, hits |-> <<>>]]

\* What redisClient.Do can return for FT.SEARCH.
Replies ==
    { NotAMapReply }
    \cup { [isMap |-> TRUE, total |-> t, results |-> l] : t \in Totals, l \in ResultLists }

\* What db.Search returns.
SearchResult(err, result) == [err |-> err, result |-> result]

\* json.Unmarshal([]byte(jsonString), &newArticles).
UnmarshalAll(items) == [i \in 1..Len(items) |-> Unmarshal(items[i])]

\* The loop over extra_attributes with the records of a value put in front of
\* those already taken.
RECURSIVE SearchAttributesPrepend(_, _)
SearchAttributesPrepend(vals, result) ==
    IF vals = <<>> THEN SearchResult(NilError, result)
    ELSE IF ~Head(vals).isString THEN SearchAttributesPrepend(Tail(vals), result)
    ELSE IF ~Head(vals).decodes
    THEN SearchResult("database result not on expected format", result)
    ELSE SearchAttributesPrepend(Tail(vals), UnmarshalAll(Head(vals).items) \o result)

\* db.Search, the loop over one hit's extra_attributes, visited in the order
\* of vals: a value that is no string is passed over.
RECURSIVE SearchAttributes(_, _)
SearchAttributes(vals, result) ==
    IF vals = <<>> THEN SearchResult(NilError, result)
    ELSE IF ~Head(vals).isString THEN SearchAttributes(Tail(vals), result)
    ELSE IF ~Head(vals).decodes
    THEN SearchResult("database result not on expected format", result)
    ELSE SearchAttributes(Tail(vals), result \o UnmarshalAll(Head(vals).items))

\* db.Search, the loop over the results list; the range over a hit's
\* extra_attributes visits its values in any order.
RECURSIVE SearchHits(_, _)
SearchHits(hits, result) ==
    IF hits = <<>> THEN { SearchResult(NilError, result) }
    ELSE IF ~Head(hits).isMap
    THEN { SearchResult("database Search results at first level is in invalid format",
                        result) }
    ELSE IF ~Head(hits).attrs.isMap
    THEN { SearchResult("database Search result at second level is in invalid format",
                        result) }
    ELSE UNION { LET vals == Head(hits).attrs.vals
                     o    == SearchAttributes([i \in 1..Len(vals) |-> vals[order[i]]],
                                              result)
                 IN  IF o.err # NilError THEN {o}
                     ELSE SearchHits(Tail(hits), o.result)
                 : order \in Orders(DOMAIN Head(hits).attrs.vals) }

\* The decoding with the results list looked at before the total.
SearchReplyListFirst(reply) ==
    IF ~reply.isMap
    THEN { SearchResult("response returned when running this search is not a valid map structure",
                        <<>>) }
    ELSE IF ~reply.results.isList
    THEN { SearchResult("result from the query is not a valid List of Interfaces", <<>>) }
    ELSE IF ~reply.total.isInt
    THEN { SearchResult("total Results is not a valid digit", <<>>) }
    ELSE IF reply.total.val <= 0 THEN { SearchResult(NilError, <<>>) }
    ELSE SearchHits(reply.results.hits, <<>>)

\* db.Search, from the reply of redisClient.Do on.
SearchReply(reply) ==
    IF ~reply.isMap
    THEN { SearchResult("response returned when running this search is not a valid map structure",
                        <<>>) }
    ELSE IF ~reply.total.isInt
    THEN { SearchResult("total Results is not a valid digit", <<>>) }
    ELSE IF reply.total.val <= 0 THEN { SearchResult(NilError, <<>>) }
    ELSE IF ~reply.results.isList
    THEN { SearchResult("result from the query is not a valid List of Interfaces", <<>>) }
    ELSE SearchHits(reply.results.hits, <<>>)

\* ------------------------------------------------------------ search: requests
\* Parameter names a client may send: schema names, schema names in another
\* letter case, and a name outside the schema.
QueryNames ==
    { <<"i", "d">>, <<"t", "i", "t", "l", "e">>, <<"t", "a", "g", "s">>,
      <<"T", "i", "t", "l", "e">>, <<"T", "A", "G", "S">>,
      <<"c", "o", "l", "o", "r">> }

\* The values of one parameter: one word, two words, one value of two words.
ValueLists ==
    { << <<"go">> >>, << <<"go">>, <<"rust">> >>, << <<"go", " ", "rust">> >> }

\* r.URL.Query(): a map from at most MaxParams names to their values.
Queries ==
    UNION { [S -> ValueLists] :
              S \in { T \in SUBSET QueryNames : Cardinality(T) <= MaxParams } }

\* The search handler's variables before a request.
NoSearch ==
    [params |-> <<>>, errorf |-> NilErrorf, filters |-> <<>>, queries |-> <<>>,
     replied |-> FALSE, reply |-> NotAMapReply]

\* ------------------------------------------------------------ listing
\* One element of the reply of JSON.MGET: the JSON text found under the path
\* in the document of a key, or nil for a key that holds no document.
AbsentMarker == [isString |-> FALSE, docs |-> <<>>]

PathResult(doc) == [isString |-> TRUE, docs |-> <<doc>>]

\* A multi-get that leaves out the keys that hold no document.
RECURSIVE JSONMGetPresentOnly(_, _)
JSONMGetPresentOnly(st, keys) ==
    IF keys = <<>> THEN <<>>
    ELSE IF Head(keys) \in DOMAIN st
    THEN <<PathResult(st[Head(keys)])>> \o JSONMGetPresentOnly(st, Tail(keys))
    ELSE JSONMGetPresentOnly(st, Tail(keys))

\* db.JSONMGet: JSON.MGET key... $ answers one element per key, in the order
\* of the keys (an array reply, never redis.Nil).
JSONMGet(st, keys) ==
    [i \in 1..Len(keys) |->
        IF keys[i] \in DOMAIN st THEN PathResult(st[keys[i]]) ELSE AbsentMarker]

\* getAllArticles, the loop over resultMget: an element that is no string
\* ends it with an error, otherwise the first article of the element is taken.
RECURSIVE ListResult(_, _)
ListResult(resultMget, result) ==
    IF resultMget = <<>> THEN [err |-> NilError, result |-> result]
    ELSE IF ~Head(resultMget).isString
    THEN [err |-> "article returned in incorrect format", result |-> result]
    ELSE ListResult(Tail(resultMget),
                    Append(result, UnmarshalAll(Head(resultMget).docs)[1]))

\* The list handler's variables before a request.
NoListing == [keys |-> <<>>, resultMget |-> <<>>]

VARIABLES
    store,      \* the documents of the store, by key
    pc,         \* per request: the store call its handler makes next
    req,        \* per request: method, path identifier and body
    articles,   \* createArticle: the decoded batch
    idx,        \* createArticle: position of the loop over the batch
    article,    \* the handler's article variable
    setArgs,    \* createArticle: articlesSetArgs
    resp,       \* per request: the responses written so far
    search,     \* searchArticles: parameters, filters, command and reply
    listing     \* getAllArticles: keys and resultMget

vars == <<store, pc, req, articles, idx, article, setArgs, resp, search, listing>>

Init ==
    /\ store = [k \in {} |-> Marshal(NoArticle)]
    /\ pc = [r \in Reqs |-> "idle"]
    /\ req = [r \in Reqs |-> NoReq]
    /\ articles = [r \in Reqs |-> <<>>]
    /\ idx = [r \in Reqs |-> 0]
    /\ article = [r \in Reqs |-> NoArticle]
    /\ setArgs = [r \in Reqs |-> <<>>]
    /\ resp = [r \in Reqs |-> <<>>]
    /\ search = [r \in Reqs |-> NoSearch]
    /\ listing = [r \in Reqs |-> NoListing]

\* handleError followed by return: err.Error() is evaluated first, so a nil
\* err panics before anything is written; net/http recovers the panic and
\* drops the connection.
HandleError(r, status, err) ==
    /\ resp' = [resp EXCEPT ![r] =
                  IF err = NilError THEN @ ELSE Append(@, ErrorResponse(status, err))]
    /\ pc' = [pc EXCEPT ![r] = IF err = NilError THEN "panicked" ELSE "done"]

\* responseJSON(w, v, 200) followed by return.
ResponseJSON(r, body) ==
    /\ resp' = [resp EXCEPT ![r] = Append(@, OkResponse(body))]
    /\ pc' = [pc EXCEPT ![r] = "done"]

\* ------------------------------------------------------------ createArticle
\* The switch on the first token of the body.  An array is decoded element by
\* element; the single-object branch builds a second decoder on r.Body, which
\* the first decoder has already read into its buffer (a body of up to 512
\* bytes is read whole), so its Decode fails with EOF; the default branch
\* reports the error and does not return.
DecodeBody(b) ==
    CASE b.kind = "empty" ->
           [articles |-> <<>>, returned |-> TRUE,
            out |-> <<ErrorResponse("BadRequest", "reading JSON")>>]
      [] b.kind = "array" ->
           IF \E i \in 1..Len(b.items) : ~b.items[i].decodes
           THEN LET bad == CHOOSE i \in 1..Len(b.items) :
                              /\ ~b.items[i].decodes
                              /\ \A j \in 1..(i - 1) : b.items[j].decodes
                IN  [articles |-> [i \in 1..(bad - 1) |-> b.items[i].value],
                     returned |-> TRUE,
                     out |-> <<ErrorResponse("BadRequest", "decode")>>]
           ELSE [articles |-> [i \in 1..Len(b.items) |-> b.items[i].value],
                 returned |-> FALSE, out |-> <<>>]
      [] b.kind = "object" ->
           [articles |-> <<>>, returned |-> TRUE,
            out |-> <<ErrorResponse("BadRequest", "decode")>>]
      [] OTHER ->
           [articles |-> <<>>, returned |-> FALSE,
            out |-> <<ErrorResponse("BadRequest", "neither a list nor an article")>>]

\* The loop body from validate.Struct up to the db.Exists call.
Validated(a) ==
    IF ValidateStruct(a)
    THEN [pc |-> "exists", article |-> a, out |-> <<>>]
    ELSE [pc |-> "done", article |-> a,
          out |-> <<ErrorResponse("BadRequest", "validation")>>]

\* The loop over the batch from position i up to its next store call.
LoopStep(arts, i) ==
    IF i > Len(arts) THEN [pc |-> "mset", article |-> NoArticle, out |-> <<>>]
    ELSE IF arts[i].Id = 0 THEN [pc |-> "scan", article |-> arts[i], out |-> <<>>]
    ELSE Validated(arts[i])

StartCreate(r, b) ==
    /\ pc[r] = "idle"
    /\ req' = [req EXCEPT ![r] = [op |-> "create", path |-> <<>>, body |-> b]]
    /\ LET d == DecodeBody(b)
           n == IF d.returned
                THEN [pc |-> "done", article |-> NoArticle, out |-> <<>>]
                ELSE LoopStep(d.articles, 1)
       IN  /\ articles' = [articles EXCEPT ![r] = d.articles]
           /\ idx' = [idx EXCEPT ![r] = 1]
           /\ pc' = [pc EXCEPT ![r] = n.pc]
           /\ article' = [article EXCEPT ![r] = n.article]
           /\ resp' = [resp EXCEPT ![r] = d.out \o n.out]
    /\ UNCHANGED <<store, setArgs, search, listing>>

\* The getAutomatedId call of the loop body: the db.GetAllKeys call, whose
\* keys come in any order, the identifier computed from them, and the loop
\* body up to db.Exists.
AllocateId(r) ==
    /\ pc[r] = "scan"
    /\ \E ok \in BOOLEAN :
         IF ~ok
         THEN /\ HandleError(r, "InternalServerError", "db")
              /\ UNCHANGED article
         ELSE \E existingKeys \in GetAllKeys(store, keysPrefix) :
                LET g == getAutomatedId(existingKeys)
                IN  IF ~g.ok
                    THEN /\ HandleError(r, "InternalServerError", "strconv")
                         /\ UNCHANGED article
                    ELSE LET n == Validated([article[r] EXCEPT !.Id = g.id])
                         IN  /\ pc' = [pc EXCEPT ![r] = n.pc]
                             /\ article' = [article EXCEPT ![r] = n.article]
                             /\ resp' = [resp EXCEPT ![r] = @ \o n.out]
    /\ UNCHANGED <<store, req, articles, idx, setArgs, search, listing>>

\* The db.Exists call of the loop body, the append to articlesSetArgs and the
\* loop up to its next store call.
CreateExists(r) ==
    /\ pc[r] = "exists"
    /\ req[r].op = "create"
    /\ \E ok \in BOOLEAN :
         LET key == KeyOfId(article[r].Id)
         IN  IF ~ok
             THEN /\ HandleError(r, "InternalServerError", "db")
                  /\ UNCHANGED <<idx, article, setArgs>>
             ELSE IF Exists(store, key) # 0
             THEN /\ HandleError(r, "NotFound", "duplicate Article Id")
                  /\ UNCHANGED <<idx, article, setArgs>>
             ELSE LET n == LoopStep(articles[r], idx[r] + 1)
                  IN  /\ setArgs' = [setArgs EXCEPT ![r] =
                            Append(@, [Key |-> key, Path |-> "$",
                                       Value |-> Marshal(article[r])])]
                      /\ idx' = [idx EXCEPT ![r] = @ + 1]
                      /\ pc' = [pc EXCEPT ![r] = n.pc]
                      /\ article' = [article EXCEPT ![r] = n.article]
                      /\ resp' = [resp EXCEPT ![r] = @ \o n.out]
    /\ UNCHANGED <<store, req, articles, search, listing>>

\* The multi-set call sent once per triple: a failure after the first triple
\* leaves that one written.
MSetOneByOne(r) ==
    /\ pc[r] = "mset"
    /\ \E ok \in BOOLEAN :
         IF ok /\ setArgs[r] # <<>>
         THEN /\ store' = JSONMSetArgs(store, setArgs[r])
              /\ ResponseJSON(r, <<>>)
         ELSE /\ HandleError(r, "InternalServerError", "db")
              /\ store' = IF setArgs[r] = <<>> THEN store
                          ELSE JSONMSetArgs(store, <<Head(setArgs[r])>>)
    /\ UNCHANGED <<req, articles, idx, article, setArgs, search, listing>>

\* The multi-set call preceded by a second existence check of its keys.
MSetRechecked(r) ==
    /\ pc[r] = "mset"
    /\ \E ok \in BOOLEAN :
         IF \E i \in 1..Len(setArgs[r]) : Exists(store, setArgs[r][i].Key) # 0
         THEN /\ HandleError(r, "NotFound", "duplicate Article Id")
              /\ UNCHANGED store
         ELSE IF ok /\ setArgs[r] # <<>>
         THEN /\ store' = JSONMSetArgs(store, setArgs[r])
              /\ ResponseJSON(r, <<>>)
         ELSE /\ HandleError(r, "InternalServerError", "db")
              /\ UNCHANGED store
    /\ UNCHANGED <<req, articles, idx, article, setArgs, search, listing>>

\* The db.JSONMSetArgs call; JSON.MSET without arguments is an error of the
\* store, and a failed call writes nothing.
MSet(r) ==
    /\ pc[r] = "mset"
    /\ \E ok \in BOOLEAN :
         IF ok /\ setArgs[r] # <<>>
         THEN /\ store' = JSONMSetArgs(store, setArgs[r])
              /\ ResponseJSON(r, <<>>)
         ELSE /\ HandleError(r, "InternalServerError", "db")
              /\ UNCHANGED store
    /\ UNCHANGED <<req, articles, idx, article, setArgs, search, listing>>

\* ------------------------------------------------------------ getArticleByID
StartGet(r, p) ==
    /\ pc[r] = "idle"
    /\ req' = [req EXCEPT ![r] = [op |-> "get", path |-> p, body |-> NoReq.body]]
    /\ pc' = [pc EXCEPT ![r] = "get"]
    /\ UNCHANGED <<store, articles, idx, article, setArgs, resp, search, listing>>

\* What getArticleByID makes of the result of db.JSONGet: the error passed to
\* handleError for the empty result is nil.
GetOutcome(result) ==
    IF result = <<>>
    THEN [found |-> FALSE, status |-> "NotFound", err |-> NilError,
          article |-> NoArticle]
    ELSE [found |-> TRUE, status |-> "OK", err |-> NilError,
          article |-> Unmarshal(result[1])]

\* The db.JSONGet call and the response.
Get(r) ==
    /\ pc[r] = "get"
    /\ \E ok \in BOOLEAN :
         IF ~ok
         THEN HandleError(r, "InternalServerError", "db")
         ELSE LET o == GetOutcome(JSONGet(store, KeyOfPath(req[r].path)))
              IN  IF o.found
                  THEN ResponseJSON(r, <<o.article>>)
                  ELSE HandleError(r, o.status, o.err)
    /\ UNCHANGED <<store, req, articles, idx, article, setArgs, search, listing>>

\* ------------------------------------------------------------ updateArticleByID
\* The handler up to its db.Exists call without the id check: a non-zero
\* identifier of the payload is kept.
UpdatePreparedKeepsId(p, e) ==
    LET id == Atoi(p)
        a  == IF e.value.Id # 0 THEN e.value ELSE [e.value EXCEPT !.Id = ToUint(id.val)]
    IN  IF ~id.ok THEN [ok |-> FALSE, err |-> "strconv", article |-> NoArticle]
        ELSE IF ~e.decodes THEN [ok |-> FALSE, err |-> "decode", article |-> NoArticle]
        ELSE IF ~ValidateStruct(a) THEN [ok |-> FALSE, err |-> "validation", article |-> a]
        ELSE [ok |-> TRUE, err |-> "", article |-> a]

\* The handler up to its db.Exists call: strconv.Atoi of the path, decoding,
\* the id check, article.Id = uint(id), validation.
UpdatePrepared(p, e) ==
    LET id == Atoi(p)
        a  == [e.value EXCEPT !.Id = ToUint(id.val)]
    IN  IF ~id.ok THEN [ok |-> FALSE, err |-> "strconv", article |-> NoArticle]
        ELSE IF ~e.decodes THEN [ok |-> FALSE, err |-> "decode", article |-> NoArticle]
        ELSE IF e.value.Id # 0 /\ ToUint(id.val) # e.value.Id
        THEN [ok |-> FALSE, err |-> "mismatch", article |-> e.value]
        ELSE IF ~ValidateStruct(a) THEN [ok |-> FALSE, err |-> "validation", article |-> a]
        ELSE [ok |-> TRUE, err |-> "", article |-> a]

StartUpdate(r, p, e) ==
    /\ pc[r] = "idle"
    /\ req' = [req EXCEPT ![r] =
                 [op |-> "update", path |-> p, body |-> [kind |-> "object", items |-> <<e>>]]]
    /\ LET u == UpdatePrepared(p, e)
       IN  /\ article' = [article EXCEPT ![r] = u.article]
           /\ IF u.ok
              THEN pc' = [pc EXCEPT ![r] = "exists"] /\ UNCHANGED resp
              ELSE HandleError(r, "BadRequest", u.err)
    /\ UNCHANGED <<store, articles, idx, setArgs, search, listing>>

\* The key update and delete address: the path identifier parsed and printed
\* again.
PathKey(r) == KeyOfId(Atoi(req[r].path).val)

\* The db.Exists call of update and of delete.
CheckExists(r) ==
    /\ pc[r] = "exists"
    /\ req[r].op \in {"update", "delete"}
    /\ \E ok \in BOOLEAN :
         IF ~ok
         THEN HandleError(r, "InternalServerError", "db")
         ELSE IF Exists(store, PathKey(r)) = 0
         THEN HandleError(r, "NotFound", "no article found")
         ELSE /\ pc' = [pc EXCEPT ![r] = IF req[r].op = "update" THEN "set" ELSE "del"]
              /\ UNCHANGED resp
    /\ UNCHANGED <<store, req, articles, idx, article, setArgs, search, listing>>

\* The db.JSONSet call that has written even when it is reported as failed.
SetWritesOnFailure(r) ==
    /\ pc[r] = "set"
    /\ \E ok \in BOOLEAN :
         /\ store' = JSONSet(store, PathKey(r), Marshal(article[r]))
         /\ IF ok THEN ResponseJSON(r, <<article[r]>>)
            ELSE HandleError(r, "InternalServerError", "db")
    /\ UNCHANGED <<req, articles, idx, article, setArgs, search, listing>>

\* The db.JSONSet call of update and the response.
Set(r) ==
    /\ pc[r] = "set"
    /\ \E ok \in BOOLEAN :
         IF ok
         THEN /\ store' = JSONSet(store, PathKey(r), Marshal(article[r]))
              /\ ResponseJSON(r, <<article[r]>>)
         ELSE /\ HandleError(r, "InternalServerError", "db")
              /\ UNCHANGED store
    /\ UNCHANGED <<req, articles, idx, article, setArgs, search, listing>>

\* ------------------------------------------------------------ deleteArticleByID
StartDelete(r, p) ==
    /\ pc[r] = "idle"
    /\ req' = [req EXCEPT ![r] = [op |-> "delete", path |-> p, body |-> NoReq.body]]
    /\ IF Atoi(p).ok
       THEN pc' = [pc EXCEPT ![r] = "exists"] /\ UNCHANGED resp
       ELSE HandleError(r, "BadRequest", "strconv")
    /\ UNCHANGED <<store, articles, idx, article, setArgs, search, listing>>

\* The db.Del call and the response.
DelStep(r) ==
    /\ pc[r] = "del"
    /\ \E ok \in BOOLEAN :
         IF ok
         THEN /\ store' = Del(store, PathKey(r))
              /\ ResponseJSON(r, <<>>)
         ELSE /\ HandleError(r, "InternalServerError", "db")
              /\ UNCHANGED store
    /\ UNCHANGED <<req, articles, idx, article, setArgs, search, listing>>

\* ------------------------------------------------------------ searchArticles
\* The handler without its check for an empty query.
StartSearchUnguarded(r, q) ==
    /\ pc[r] = "idle"
    /\ req' = [req EXCEPT ![r] = [op |-> "search", path |-> <<>>, body |-> NoReq.body]]
    /\ LET expectedParams == structFieldsJsonTags(ArticleType)
       IN  \E e \in isQueryParamsExpected(q, expectedParams) :
             IF e # NilErrorf
             THEN /\ HandleError(r, "BadRequest", e.format)
                  /\ search' = [search EXCEPT ![r] = [NoSearch EXCEPT !.params = q,
                                                                     !.errorf = e]]
             ELSE \E f \in buildSearchParams(q, ArticleType) :
                    /\ search' = [search EXCEPT ![r] = [NoSearch EXCEPT !.params = q,
                                                                       !.filters = f]]
                    /\ pc' = [pc EXCEPT ![r] = "search"]
                    /\ UNCHANGED resp
    /\ UNCHANGED <<store, articles, idx, article, setArgs, listing>>

\* The handler up to its db.Search call: the check for an empty query, the
\* check of the names, buildSearchParams.
StartSearch(r, q) ==
    /\ pc[r] = "idle"
    /\ req' = [req EXCEPT ![r] = [op |-> "search", path |-> <<>>, body |-> NoReq.body]]
    /\ LET expectedParams == structFieldsJsonTags(ArticleType)
       IN  IF DOMAIN q = {}
           THEN LET e == Errorf("you must provide at least one of the following parameter",
                                <<>>, expectedParams)
                IN  /\ HandleError(r, "BadRequest", e.format)
                    /\ search' = [search EXCEPT ![r] = [NoSearch EXCEPT !.params = q,
                                                                       !.errorf = e]]
           ELSE \E e \in isQueryParamsExpected(q, expectedParams) :
                  IF e # NilErrorf
                  THEN /\ HandleError(r, "BadRequest", e.format)
                       /\ search' = [search EXCEPT ![r] = [NoSearch EXCEPT !.params = q,
                                                                          !.errorf = e]]
                  ELSE \E f \in buildSearchParams(q, ArticleType) :
                         /\ search' = [search EXCEPT ![r] = [NoSearch EXCEPT !.params = q,
                                                                            !.filters = f]]
                         /\ pc' = [pc EXCEPT ![r] = "search"]
                         /\ UNCHANGED resp
    /\ UNCHANGED <<store, articles, idx, article, setArgs, listing>>

\* The db.Search call: the command is built and sent, the reply decoded, and
\* the response written.
SearchCall(r) ==
    /\ pc[r] = "search"
    /\ LET queries == SearchQueries(searchIndexName, search[r].filters)
       IN  \E ok \in BOOLEAN :
             IF ~ok
             THEN /\ HandleError(r, "InternalServerError", "db")
                  /\ search' = [search EXCEPT ![r].queries = queries]
             ELSE \E reply \in Replies :
                    \E o \in SearchReply(reply) :
                      /\ search' = [search EXCEPT ![r].queries = queries,
                                                  ![r].replied = TRUE,
                                                  ![r].reply = reply]
                      /\ IF o.err # NilError
                         THEN HandleError(r, "InternalServerError", o.err)
                         ELSE ResponseJSON(r, o.result)
    /\ UNCHANGED <<store, req, articles, idx, article, setArgs, listing>>

\* ------------------------------------------------------------ getAllArticles
StartList(r) ==
    /\ pc[r] = "idle"
    /\ req' = [req EXCEPT ![r] = [op |-> "list", path |-> <<>>, body |-> NoReq.body]]
    /\ pc' = [pc EXCEPT ![r] = "keys"]
    /\ UNCHANGED <<store, articles, idx, article, setArgs, resp, search, listing>>

\* The db.GetAllKeys call without the answer for an empty key list.
ListKeysUnguarded(r) ==
    /\ pc[r] = "keys"
    /\ \E ok \in BOOLEAN :
         IF ~ok
         THEN /\ HandleError(r, "InternalServerError", "db")
              /\ UNCHANGED listing
         ELSE \E keys \in GetAllKeys(store, keysPrefix) :
                /\ listing' = [listing EXCEPT ![r].keys = keys]
                /\ pc' = [pc EXCEPT ![r] = "mget"]
                /\ UNCHANGED resp
    /\ UNCHANGED <<store, req, articles, idx, article, setArgs, search>>

\* The db.GetAllKeys call; an empty key list is answered at once.
ListKeys(r) ==
    /\ pc[r] = "keys"
    /\ \E ok \in BOOLEAN :
         IF ~ok
         THEN /\ HandleError(r, "InternalServerError", "db")
              /\ UNCHANGED listing
         ELSE \E keys \in GetAllKeys(store, keysPrefix) :
                /\ listing' = [listing EXCEPT ![r].keys = keys]
                /\ IF Len(keys) = 0
                   THEN ResponseJSON(r, <<>>)
                   ELSE pc' = [pc EXCEPT ![r] = "mget"] /\ UNCHANGED resp
    /\ UNCHANGED <<store, req, articles, idx, article, setArgs, search>>

\* The db.JSONMGet call, the loop over its result and the response; JSON.MGET
\* without a key is an error of the store.
ListMGet(r) ==
    /\ pc[r] = "mget"
    /\ \E ok \in BOOLEAN :
         IF ok /\ listing[r].keys # <<>>
         THEN LET resultMget == JSONMGet(store, listing[r].keys)
                  o == ListResult(resultMget, <<>>)
              IN  /\ listing' = [listing EXCEPT ![r].resultMget = resultMget]
                  /\ IF o.err # NilError
                     THEN HandleError(r, "InternalServerError", o.err)
                     ELSE ResponseJSON(r, o.result)
         ELSE /\ HandleError(r, "InternalServerError", "db")
              /\ UNCHANGED listing
    /\ UNCHANGED <<store, req, articles, idx, article, setArgs, search>>

\* ------------------------------------------------------------ the server
\* The handler has returned (or its panic was recovered): the goroutine ends.
Finish(r) ==
    /\ pc[r] \in {"done", "panicked"}
    /\ pc' = [pc EXCEPT ![r] = "idle"]
    /\ req' = [req EXCEPT ![r] = NoReq]
    /\ articles' = [articles EXCEPT ![r] = <<>>]
    /\ idx' = [idx EXCEPT ![r] = 0]
    /\ article' = [article EXCEPT ![r] = NoArticle]
    /\ setArgs' = [setArgs EXCEPT ![r] = <<>>]
    /\ resp' = [resp EXCEPT ![r] = <<>>]
    /\ search' = [search EXCEPT ![r] = NoSearch]
    /\ listing' = [listing EXCEPT ![r] = NoListing]
    /\ UNCHANGED store

\* One step of a running handler.
Step(r) ==
    \/ AllocateId(r)
    \/ CreateExists(r)
    \/ MSet(r)
    \/ Get(r)
    \/ CheckExists(r)
    \/ Set(r)
    \/ DelStep(r)
    \/ Finish(r)

\* A request arrives.
Start(r) ==
    \/ \E b \in Bodies : StartCreate(r, b)
    \/ \E p \in PathIds : StartGet(r, p)
    \/ \E p \in PathIds, e \in Elems : StartUpdate(r, p, e)
    \/ \E p \in PathIds : StartDelete(r, p)

NoneRunning == \A r \in Reqs : pc[r] = "idle"

\* Requests served one after the other.
SeqNext == \E r \in Reqs : (NoneRunning /\ Start(r)) \/ Step(r)

SeqSpec == Init /\ [][SeqNext]_vars

\* Requests served concurrently, one goroutine each.  The concurrent runs
\* take the well-formed requests: one decodable article with a title per
\* body, a decimal path identifier, and an update body that leaves the
\* identifier to the path.
ConcurrentElems == { e \in Elems : e.decodes /\ e.value.Title # "" }

ConcurrentBodies == { [kind |-> "array", items |-> <<e>>] : e \in ConcurrentElems }

ConcurrentPaths == { FormatNat(n) : n \in 1..(IntMax + 1) }

StartConcurrent(r) ==
    \/ \E b \in ConcurrentBodies : StartCreate(r, b)
    \/ \E p \in ConcurrentPaths : StartGet(r, p)
    \/ \E p \in ConcurrentPaths, e \in { x \in ConcurrentElems : x.value.Id = 0 } :
          StartUpdate(r, p, e)
    \/ \E p \in ConcurrentPaths : StartDelete(r, p)

Next == \E r \in Reqs : StartConcurrent(r) \/ Step(r)

Spec == Init /\ [][Next]_vars

\* Search requests served one after the other.
SearchNext ==
    \E r \in Reqs :
      \/ NoneRunning /\ \E q \in Queries : StartSearch(r, q)
      \/ SearchCall(r)
      \/ Finish(r)

SearchSpec == Init /\ [][SearchNext]_vars

\* Listing next to writers.  The runs take creates of one article with an
\* explicit identifier and the full payload, deletes, and one listing at a
\* time.
ListBodies ==
    { b \in ConcurrentBodies :
        b.items[1].value.Id # 0 /\ b.items[1].value.Tags = Slice(<<"go", "rust">>) }

ListStart(r) ==
    \/ \E b \in ListBodies : StartCreate(r, b)
    \/ \E p \in ConcurrentPaths : StartDelete(r, p)
    \/ (\A o \in Reqs : req[o].op # "list") /\ StartList(r)

ListStep(r) ==
    \/ CreateExists(r)
    \/ MSet(r)
    \/ CheckExists(r)
    \/ DelStep(r)
    \/ ListKeys(r)
    \/ ListMGet(r)
    \/ Finish(r)

\* Requests served one after the other.
ListSeqNext == \E r \in Reqs : (NoneRunning /\ ListStart(r)) \/ ListStep(r)

ListSeqSpec == Init /\ [][ListSeqNext]_vars

\* Requests served concurrently.
ListNext == \E r \in Reqs : ListStart(r) \/ ListStep(r)

ListSpec == Init /\ [][ListNext]_vars

\* ------------------------------------------------------------ properties
Last(s) == s[Len(s)]

\* The request handler of r takes this step.
Moved(r) == pc'[r] # pc[r] \/ idx'[r] # idx[r] \/ resp'[r] # resp[r]

\* The Conflict condition of create, as the handler reports it.
Conflict == ErrorResponse("NotFound", "duplicate Article Id")

\* A store call that failed in transport.
TransportError == ErrorResponse("InternalServerError", "db")

\* This step is the multi-set call of create request r, and it succeeds.
CreateSucceeds(r) ==
    /\ req[r].op = "create"
    /\ pc[r] = "mset"
    /\ pc'[r] = "done"
    /\ Last(resp'[r]).status = "OK"

\* The positions of the batch of r whose article omits the identifier.
Omitted(r) == { i \in 1..Len(articles[r]) : articles[r][i].Id = 0 }

\* C1: requests served one at a time.  A successful create of explicit
\* identifier n leaves a document at prefix+n; that key keeps a document
\* until a delete of n succeeds; and a create request that reaches its
\* existence check for an explicit identifier whose key holds a document ends
\* there with the one response 'duplicate Article Id' (the handler sends it
\* with status 404), the store unchanged -- unless the existence check
\* itself fails in transport.
C1_SecondCreateConflicts ==
    [][\A r \in Reqs :
        /\ CreateSucceeds(r) =>
             \A i \in 1..Len(articles[r]) :
                articles[r][i].Id # 0 =>
                   KeyOfId(articles[r][i].Id) \in DOMAIN store'
        /\ \A k \in DOMAIN store :
             (k \notin DOMAIN store' /\ Moved(r)) =>
                /\ req[r].op = "delete"
                /\ pc[r] = "del"
                /\ PathKey(r) = k
                /\ Last(resp'[r]).status = "OK"
        /\ ( /\ req[r].op = "create"
             /\ pc[r] = "exists"
             /\ Moved(r)
             /\ articles[r][idx[r]].Id # 0
             /\ KeyOfId(articles[r][idx[r]].Id) \in DOMAIN store )
           => /\ pc'[r] = "done"
              /\ resp'[r] \in {<<Conflict>>, <<TransportError>>}
              /\ store' = store
      ]_vars

C1_Witness ==
    \E r \in Reqs :
        /\ pc[r] = "done"
        /\ req[r].op = "create"
        /\ resp[r] = <<Conflict>>
        /\ articles[r][idx[r]].Id # 0
        /\ KeyOfId(articles[r][idx[r]].Id) \in DOMAIN store

\* C2 (as stated): requests served one at a time.  When a create request
\* succeeds, every article of its batch is written to a key that held no
\* document before the request, and no two articles of the batch are written
\* to the same key.
C2_CreateNeverOverwrites ==
    [][\A r \in Reqs :
        CreateSucceeds(r) =>
           \A i \in 1..Len(setArgs[r]) :
              /\ setArgs[r][i].Key \notin DOMAIN store
              /\ \A j \in 1..Len(setArgs[r]) :
                    j # i => setArgs[r][j].Key # setArgs[r][i].Key
      ]_vars

\* C3 (as stated): requests served one at a time.  When a create request
\* whose batch holds k >= 2 articles without identifier succeeds, these
\* articles got pairwise distinct identifiers, none of them stored before,
\* and the store holds at least k more documents than before.
C3_AllocatedIdsDistinct ==
    [][\A r \in Reqs :
        (CreateSucceeds(r) /\ Cardinality(Omitted(r)) >= 2) =>
           /\ \A i, j \in Omitted(r) :
                 i # j => setArgs[r][i].Key # setArgs[r][j].Key
           /\ \A i \in Omitted(r) : setArgs[r][i].Key \notin DOMAIN store
           /\ Cardinality(DOMAIN store') >=
                 Cardinality(DOMAIN store) + Cardinality(Omitted(r))
      ]_vars

\* The key and the document create derives for article a once it carries
\* identifier n.
TripleOf(a, n) ==
    [Key |-> keysPrefix \o FormatNat(n), Path |-> "$",
     Value |-> [id |-> n, title |-> a.Title, content |-> a.Content,
                author |-> a.Author,
                tags |-> IF a.Tags.isNil THEN <<"null">>
                         ELSE <<"[">> \o a.Tags.elems \o <<"]">>]]

\* Every document of the batch of r is written by this step: the request
\* body is an array whose elements all decode and validate, each went to the
\* key of its (given or allocated) identifier, which held no document, and
\* the store holds afterwards what these writes, applied in order, leave.
BatchWritten(r) ==
    LET items == req[r].body.items
        args  == setArgs[r]
    IN  /\ req[r].body.kind = "array"
        /\ Len(args) = Len(items)
        /\ Len(items) >= 1
        /\ \A i \in 1..Len(items) :
              /\ items[i].decodes
              /\ items[i].value.Title # ""
              /\ \E n \in 1..UintMax :
                    /\ items[i].value.Id # 0 => n = items[i].value.Id
                    /\ args[i] = TripleOf(items[i].value, n)
              /\ args[i].Key \notin DOMAIN store
        /\ DOMAIN store' = DOMAIN store \cup { args[i].Key : i \in 1..Len(args) }
        /\ \A k \in DOMAIN store' :
              IF \E i \in 1..Len(args) : args[i].Key = k
              THEN LET last == CHOOSE i \in 1..Len(args) :
                                  /\ args[i].Key = k
                                  /\ \A j \in (i + 1)..Len(args) : args[j].Key # k
                   IN  store'[k] = args[last].Value
              ELSE store'[k] = store[k]

C5_CreateThenFetch ==
    [][\A r \in Reqs :
        CreateSucceeds(r) =>
           \A i \in 1..Len(articles[r]) :
              LET n       == setArgs[r][i].Value.id
                  fetched == GetOutcome(JSONGet(store', KeyOfPath(FormatNat(n))))
              IN  /\ fetched.found
                  /\ fetched.article = [articles[r][i] EXCEPT !.Id = n]
      ]_vars

\* C6 (as stated): a get request whose key holds no document ends with a
\* NotFound response (or with the transport error of the store call); the
\* handler does not fault and does not end without a response.
C6_FetchAbsentIsNotFound ==
    [][\A r \in Reqs :
        ( /\ req[r].op = "get"
          /\ pc[r] = "get"
          /\ Moved(r)
          /\ KeyOfPath(req[r].path) \notin DOMAIN store )
        => /\ pc'[r] = "done"
           /\ Len(resp'[r]) = 1
           /\ \/ resp'[r][1].status = "NotFound"
              \/ resp'[r][1] = TransportError
      ]_vars

\* The NotFound outcome of update and delete.
NotFound == ErrorResponse("NotFound", "no article found")

\* C7: requests served one at a time.  An update or delete whose key holds no
\* document ends at its existence check with the one response NotFound
\* (unless that check fails in transport) and never changes the store; the
\* set call and the delete call are reached only for a key that holds a
\* document, a 200 is answered only for such a key, and an update adds no key
\* to the store.
C7_UpdateDeleteAbsentNotFound ==
    [][\A r \in Reqs :
        (req[r].op \in {"update", "delete"} /\ Moved(r)) =>
           /\ (pc[r] = "exists" /\ PathKey(r) \notin DOMAIN store) =>
                 /\ pc'[r] = "done"
                 /\ resp'[r] \in {<<NotFound>>, <<TransportError>>}
           /\ PathKey(r) \notin DOMAIN store => store' = store
           /\ pc'[r] \in {"set", "del"} => PathKey(r) \in DOMAIN store
           /\ (pc[r] \in {"set", "del"} /\ Last(resp'[r]).status = "OK") =>
                 PathKey(r) \in DOMAIN store
           /\ req[r].op = "update" => DOMAIN store' \subseteq DOMAIN store
      ]_vars

C7_Witness ==
    \E r \in Reqs :
        /\ pc[r] = "done"
        /\ req[r].op = "update"
        /\ resp[r] = <<NotFound>>
        /\ PathKey(r) \notin DOMAIN store
        /\ DOMAIN store # {}

\* The identifier a key carries after the prefix.
SuffixOf(k) == CHOOSE n \in 0..UintMax : k = keysPrefix \o FormatNat(n)

SetMax(S) == CHOOSE m \in S : \A x \in S : x <= m

\* C8 (as stated): whatever the order in which the scan returns the keys,
\* getAutomatedId succeeds and returns 1 when no key exists under the prefix
\* and otherwise max+1, max being the largest identifier among the existing
\* keys (a transport failure of the scan apart).
C8_NextIdIsMaxPlusOne ==
    [][\A r \in Reqs :
        (pc[r] = "scan" /\ Moved(r)) =>
           LET ids == { SuffixOf(k) : k \in DOMAIN store }
           IN  \/ resp'[r] # <<>> /\ Last(resp'[r]) = TransportError
               \/ /\ resp'[r] = <<>> \/ Last(resp'[r]).error # "strconv"
                  /\ article'[r].Id = IF ids = {} THEN 1 ELSE SetMax(ids) + 1
      ]_vars

\* Create request r1 is past its existence check and about to write the one
\* key that create request r2 is also about to write, or has just written
\* with success.
Racing(r1, r2) ==
    /\ r1 # r2
    /\ req[r1].op = "create" /\ req[r2].op = "create"
    /\ pc[r1] = "mset"
    /\ pc[r2] = "mset" \/ (pc[r2] = "done" /\ resp[r2] = <<OkResponse(<<>>)>>)
    /\ Len(setArgs[r1]) = 1 /\ Len(setArgs[r2]) = 1
    /\ setArgs[r1][1].Key = setArgs[r2][1].Key

\* The store after one write of value v to key k.
Written(k, v) ==
    /\ DOMAIN store' = DOMAIN store \cup {k}
    /\ \A j \in DOMAIN store' : store'[j] = IF j = k THEN v ELSE store[j]

\* C9: concurrent requests.  Once two create requests for the same explicit
\* identifier have both passed the existence check, nothing stops either:
\* the write of each is answered 200 (never 'duplicate Article Id'; a
\* transport failure apart) and puts its own document at the key, over the
\* one the other request wrote.
C9_ExplicitIdRace ==
    [][\A r1, r2 \in Reqs :
        ( /\ Racing(r1, r2)
          /\ articles[r1][1].Id # 0 /\ articles[r2][1].Id # 0
          /\ Moved(r1) )
        => /\ pc'[r1] = "done"
           /\ resp'[r1] \in {<<OkResponse(<<>>)>>, <<TransportError>>}
           /\ resp'[r1] = <<OkResponse(<<>>)>> =>
                 Written(setArgs[r1][1].Key, setArgs[r1][1].Value)
      ]_vars

\* Both requests passed the existence check before either wrote: r1 has
\* written and answered 200, r2 is about to write another document to the
\* same key.
C9_Witness ==
    \E r1, r2 \in Reqs :
        /\ Racing(r2, r1)
        /\ pc[r1] = "done"
        /\ articles[r1][1].Id # 0 /\ articles[r2][1].Id # 0
        /\ setArgs[r1][1].Key \in DOMAIN store
        /\ store[setArgs[r1][1].Key] = setArgs[r1][1].Value
        /\ setArgs[r2][1].Value # setArgs[r1][1].Value

\* C10: concurrent requests.  Once two create requests that omit the
\* identifier have been allocated the same identifier and have both passed
\* the existence check, the write of each is answered 200 (a transport
\* failure apart) and puts its document at the shared key; the second write
\* adds no document to the store.
C10_AllocatedIdRace ==
    [][\A r1, r2 \in Reqs :
        ( /\ Racing(r1, r2)
          /\ articles[r1][1].Id = 0 /\ articles[r2][1].Id = 0
          /\ Moved(r1) )
        => /\ pc'[r1] = "done"
           /\ resp'[r1] \in {<<OkResponse(<<>>)>>, <<TransportError>>}
           /\ resp'[r1] = <<OkResponse(<<>>)>> =>
                 /\ Written(setArgs[r1][1].Key, setArgs[r1][1].Value)
                 /\ setArgs[r1][1].Key \in DOMAIN store =>
                       Cardinality(DOMAIN store') = Cardinality(DOMAIN store)
      ]_vars

\* Both requests were allocated the same identifier: r1 has written and
\* answered 200, r2 is past its existence check and about to write another
\* document to the same key.
C10_Witness ==
    \E r1, r2 \in Reqs :
        /\ Racing(r2, r1)
        /\ pc[r1] = "done"
        /\ articles[r1][1].Id = 0 /\ articles[r2][1].Id = 0
        /\ setArgs[r1][1].Key \in DOMAIN store
        /\ store[setArgs[r1][1].Key] = setArgs[r1][1].Value
        /\ setArgs[r2][1].Value # setArgs[r1][1].Value

\* ------------------------------------------------------------ search properties
\* This step is the arrival of search request r.
SearchArrives(r) == pc[r] = "idle" /\ req'[r].op = "search"

\* This step is the db.Search call of request r.
SearchCalled(r) == pc[r] = "search" /\ pc'[r] # "search"

\* The names of the schema of the record type.
SchemaNames == { ArticleType[i].Tag : i \in 1..Len(ArticleType) }

Elements(s) == { s[i] : i \in 1..Len(s) }

\* The conditions of the search handler, as it reports them.
UnknownParameter ==
    ErrorResponse("BadRequest", "query provided is not one of the following parameter")

EmptyQuery ==
    ErrorResponse("BadRequest", "you must provide at least one of the following parameter")

\* C11: a search request with a parameter name outside the schema ends on
\* arrival with the one response UnknownParameter; the error names a
\* provided parameter that is outside the schema, lists exactly the names of
\* the schema, and no command has been built for the store.
C11_UnknownParameterRejected ==
    [][\A r \in Reqs :
        ( /\ SearchArrives(r)
          /\ \E p \in DOMAIN search'[r].params : p \notin SchemaNames )
        => /\ pc'[r] = "done"
           /\ resp'[r] = <<UnknownParameter>>
           /\ search'[r].errorf.param \in DOMAIN search'[r].params
           /\ search'[r].errorf.param \notin SchemaNames
           /\ Elements(search'[r].errorf.expected) = SchemaNames
           /\ search'[r].queries = <<>>
           /\ ~search'[r].replied
      ]_vars

\* A request with a schema name and a name outside the schema was rejected
\* naming the latter.
C11_Witness ==
    \E r \in Reqs :
        /\ req[r].op = "search"
        /\ pc[r] = "done"
        /\ DOMAIN search[r].params = { <<"t", "i", "t", "l", "e">>,
                                       <<"c", "o", "l", "o", "r">> }
        /\ search[r].errorf.param = <<"c", "o", "l", "o", "r">>
        /\ resp[r] = <<UnknownParameter>>

\* C12: a search request without parameters ends on arrival with the one
\* response EmptyQuery and no command built for the store; and no search
\* request is answered with both EmptyQuery and UnknownParameter.
C12_EmptyQueryRejected ==
    [][\A r \in Reqs :
        /\ ( SearchArrives(r) /\ DOMAIN search'[r].params = {} )
           => /\ pc'[r] = "done"
              /\ resp'[r] = <<EmptyQuery>>
              /\ search'[r].queries = <<>>
              /\ ~search'[r].replied
        /\ req'[r].op = "search"
           => ~( /\ \E i \in 1..Len(resp'[r]) : resp'[r][i] = EmptyQuery
                 /\ \E i \in 1..Len(resp'[r]) : resp'[r][i] = UnknownParameter )
      ]_vars

\* A request without parameters was answered EmptyQuery.
C12_Witness ==
    \E r \in Reqs :
        /\ req[r].op = "search"
        /\ pc[r] = "done"
        /\ DOMAIN search[r].params = {}
        /\ resp[r] = <<EmptyQuery>>
        /\ search[r].queries = <<>>

\* The kind of the schema field of this name.
FieldKind(name) ==
    ArticleType[CHOOSE i \in 1..Len(ArticleType) : ArticleType[i].Tag = name].Kind

\* C13: a search request whose parameter names are schema names in any
\* letter case passes the check of the names, and for each name a filter
\* carries its lower-case spelling with the kind of that schema field.
C13_NamesCaseInsensitive ==
    [][\A r \in Reqs :
        ( /\ SearchArrives(r)
          /\ DOMAIN search'[r].params # {}
          /\ \A p \in DOMAIN search'[r].params : ToLower(p) \in SchemaNames )
        => /\ pc'[r] = "search"
           /\ \A p \in DOMAIN search'[r].params :
                \E i \in 1..Len(search'[r].filters) :
                   /\ search'[r].filters[i].Param = ToLower(p)
                   /\ search'[r].filters[i].Type = KindType(FieldKind(ToLower(p)))
      ]_vars

\* The arguments of the command between the index name and the options.
FilterArguments(queries) == SubSeq(queries, 3, Len(queries) - 2)

\* The two forms of a filter in the query language of the store.
TagForm(field, values) ==
    <<"@">> \o field \o <<":", "{">> \o Join(values, <<" ">>) \o <<"}">>

PlainForm(field, values) == <<"@">> \o field \o <<":">> \o Join(values, <<" ">>)

C15_OneQueryArgument ==
    [][\A r \in Reqs :
        ( SearchCalled(r) /\ Len(search[r].filters) >= 2 )
        => Len(FilterArguments(search'[r].queries)) = 1
      ]_vars

\* C16: when the parameters pass validation, there is exactly one filter per
\* provided name, with the kind of the schema field of that name and the
\* provided values in their order.
C16_OneFilterPerParameter ==
    [][\A r \in Reqs :
        ( SearchArrives(r) /\ pc'[r] = "search" )
        => LET q == search'[r].params
               f == search'[r].filters
           IN  /\ Len(f) = Cardinality(DOMAIN q)
               /\ \A p \in DOMAIN q :
                    \E i \in 1..Len(f) :
                       /\ f[i].Param = p
                       /\ f[i].Type = KindType(FieldKind(p))
                       /\ f[i].Value = q[p]
      ]_vars

\* The filters of a search on two names, one of them with two values, are
\* built.
C16_Witness ==
    \E r \in Reqs :
        /\ pc[r] = "search"
        /\ Cardinality(DOMAIN search[r].params) = 2
        /\ Len(search[r].filters) = 2
        /\ \E i \in 1..Len(search[r].filters) : Len(search[r].filters[i].Value) = 2

\* The filter sequences the builder can produce.
WellFormedFilters ==
    UNION { buildSearchParams(q, ArticleType) :
              q \in { x \in Queries : DOMAIN x # {} /\ DOMAIN x \subseteq SchemaNames } }

Triples(filters) ==
    { <<filters[i].Param, filters[i].Type, filters[i].Value>> : i \in 1..Len(filters) }

\* C17: the command sent for a search determines its filters: no other
\* well-formed filter sequence, differing in a (field, kind, values) triple,
\* compiles to the same command.
C17_CompileRoundTrip ==
    \A r \in Reqs :
        ( req[r].op = "search" /\ search[r].queries # <<>> )
        => \A f \in WellFormedFilters :
              SearchQueries(searchIndexName, f) = search[r].queries
              => Triples(f) = Triples(search[r].filters)

\* This step is the db.Search call of request r, and the store replies.
SearchReplied(r) == SearchCalled(r) /\ search'[r].replied

\* C18: when the reply is a mapping whose total is an integer <= 0, the
\* search is answered 200 with no record, whatever its results entry is.
C18_NoHitsIsEmptyResult ==
    [][\A r \in Reqs :
        ( /\ SearchReplied(r)
          /\ search'[r].reply.isMap
          /\ search'[r].reply.total.isInt
          /\ search'[r].reply.total.val <= 0 )
        => /\ pc'[r] = "done"
           /\ resp'[r] = <<OkResponse(<<>>)>>
      ]_vars

\* A reply with total 0 whose results entry is no list, or holds something
\* that is no hit, was answered 200 with no record.
C18_Witness ==
    \E r \in Reqs :
        /\ req[r].op = "search"
        /\ pc[r] = "done"
        /\ search[r].replied
        /\ search[r].reply.isMap
        /\ search[r].reply.total.isInt
        /\ search[r].reply.total.val = 0
        /\ \/ ~search[r].reply.results.isList
           \/ \E i \in 1..Len(search[r].reply.results.hits) :
                 ~search[r].reply.results.hits[i].isMap
        /\ resp[r] = <<OkResponse(<<>>)>>

\* The replies the decoder has to reject.
Malformed(reply) ==
    \/ ~reply.isMap
    \/ ~reply.total.isInt
    \/ /\ reply.total.val > 0
       /\ \/ ~reply.results.isList
          \/ \E i \in 1..Len(reply.results.hits) :
                LET hit == reply.results.hits[i]
                IN  \/ ~hit.isMap
                    \/ ~hit.attrs.isMap
                    \/ \E j \in 1..Len(hit.attrs.vals) :
                          \/ ~hit.attrs.vals[j].isString
                          \/ ~hit.attrs.vals[j].decodes

\* C19: a search answered 200 from a reply with a positive total, whose hits
\* are mappings with decodable string attributes, took one record from each
\* hit, each from a payload array of exactly one element.
C19_OneRecordPerHit ==
    [][\A r \in Reqs :
        ( /\ SearchReplied(r)
          /\ ~Malformed(search'[r].reply)
          /\ search'[r].reply.total.val > 0
          /\ Last(resp'[r]).status = "OK" )
        => LET hits == search'[r].reply.results.hits
           IN  /\ Len(Last(resp'[r]).body) = Len(hits)
               /\ \A i \in 1..Len(hits) :
                    \A j \in 1..Len(hits[i].attrs.vals) :
                       LET v == hits[i].attrs.vals[j]
                       IN  (v.isString /\ v.decodes) => Len(v.items) = 1
      ]_vars

\* C20: a search whose reply is malformed (top level no mapping, total no
\* integer, positive total with results no list, a hit or its attributes no
\* mapping, an attribute value no string or not decodable) is answered with
\* the decoder's error, never 200.
C20_MalformedReplyRejected ==
    [][\A r \in Reqs :
        ( SearchReplied(r) /\ Malformed(search'[r].reply) )
        => /\ pc'[r] = "done"
           /\ Len(resp'[r]) = 1
           /\ resp'[r][1].status = "InternalServerError"
      ]_vars

\* A hit as the store sends it: a mapping whose extra_attributes hold one
\* string, the JSON array of one document.
WellFormedHit(hit) ==
    /\ hit.isMap
    /\ hit.attrs.isMap
    /\ Len(hit.attrs.vals) = 1
    /\ hit.attrs.vals[1].isString
    /\ hit.attrs.vals[1].decodes
    /\ Len(hit.attrs.vals[1].items) = 1

WellFormedReply(reply) ==
    /\ reply.isMap
    /\ reply.total.isInt
    /\ reply.total.val > 0
    /\ reply.results.isList
    /\ \A i \in 1..Len(reply.results.hits) : WellFormedHit(reply.results.hits[i])

\* C21: a search whose reply is well formed is answered 200 with as many
\* records as the reply has hits, record i being the document of hit i.
C21_ResultFollowsHitOrder ==
    [][\A r \in Reqs :
        ( SearchReplied(r) /\ WellFormedReply(search'[r].reply) )
        => LET hits == search'[r].reply.results.hits
           IN  /\ Len(resp'[r]) = 1
               /\ resp'[r][1].status = "OK"
               /\ Len(resp'[r][1].body) = Len(hits)
               /\ \A i \in 1..Len(hits) :
                    resp'[r][1].body[i] = Unmarshal(hits[i].attrs.vals[1].items[1])
      ]_vars

\* A reply of two hits with different documents was answered with the two
\* records in the order of the hits.
C21_Witness ==
    \E r \in Reqs :
        /\ req[r].op = "search"
        /\ pc[r] = "done"
        /\ search[r].replied
        /\ WellFormedReply(search[r].reply)
        /\ Len(search[r].reply.results.hits) = 2
        /\ resp[r] = <<OkResponse(<<HitArticles[2], HitArticles[1]>>)>>

\* ------------------------------------------------------------ listing properties
\* This step is the multi-get call of list request r, and the store answers.
MGetAnswered(r) ==
    /\ pc[r] = "mget"
    /\ pc'[r] = "done"
    /\ resp'[r] # <<TransportError>>

\* C22: the multi-get over keys of which some hold no document any more is
\* answered, with one element per key in the order of the keys: the document
\* of the key, or the absent marker.
C22_MultiGetKeepsPositions ==
    [][\A r \in Reqs :
        MGetAnswered(r) =>
          LET keys == listing[r].keys
              resultMget == listing'[r].resultMget
          IN  /\ Len(resultMget) = Len(keys)
              /\ \A i \in 1..Len(keys) :
                   IF keys[i] \in DOMAIN store
                   THEN resultMget[i] = PathResult(store[keys[i]])
                   ELSE resultMget[i] = AbsentMarker
      ]_vars

\* A multi-get over two keys was answered with a document and an absent
\* marker.
C22_Witness ==
    \E r \in Reqs :
        /\ req[r].op = "list"
        /\ pc[r] = "done"
        /\ Len(listing[r].keys) = 2
        /\ Len(listing[r].resultMget) = 2
        /\ \E i, j \in 1..2 :
              /\ listing[r].resultMget[i] = AbsentMarker
              /\ listing[r].resultMget[j].isString

\* The keys of the store under the prefix.
StoredKeys == { k \in DOMAIN store : HasPrefix(k, keysPrefix) }

C27_ListToleratesDeletes ==
    [][\A r \in Reqs :
        MGetAnswered(r) =>
          /\ Len(resp'[r]) = 1
          /\ resp'[r][1].status = "OK"
          /\ \A i \in 1..Len(listing[r].keys) :
               listing[r].keys[i] \in DOMAIN store =>
                  \E j \in 1..Len(resp'[r][1].body) :
                     resp'[r][1].body[j] = Unmarshal(store[listing[r].keys[i]])
      ]_vars

\* C25: requests served one at a time.  After every step, each stored
\* document lies at the key prefix + decimal(id) of the identifier inside
\* it; an update whose payload carries a non-zero identifier other than the
\* one of the path is rejected on arrival, and a successful update leaves at
\* the key of the path a document whose identifier is the path identifier.
C25_KeyMatchesIdentifier ==
    [][/\ \A k \in DOMAIN store' : k = keysPrefix \o FormatNat(store'[k].id)
       /\ \A r \in Reqs :
            /\ ( /\ pc[r] = "idle"
                 /\ req'[r].op = "update"
                 /\ Atoi(req'[r].path).ok
                 /\ req'[r].body.items[1].decodes
                 /\ req'[r].body.items[1].value.Id # 0
                 /\ req'[r].body.items[1].value.Id # ToUint(Atoi(req'[r].path).val) )
               => /\ pc'[r] = "done"
                  /\ resp'[r] = <<ErrorResponse("BadRequest", "mismatch")>>
            /\ ( /\ req[r].op = "update"
                 /\ pc[r] = "set"
                 /\ pc'[r] = "done"
                 /\ Last(resp'[r]).status = "OK" )
               => /\ keysPrefix \o FormatNat(Atoi(req[r].path).val) \in DOMAIN store'
                  /\ store'[keysPrefix \o FormatNat(Atoi(req[r].path).val)].id
                        = Atoi(req[r].path).val
      ]_vars

\* An update addressed as '01' has rewritten the document of identifier 1 at
\* the key of 1.
C25_Witness ==
    \E r \in Reqs :
        /\ req[r].op = "update"
        /\ req[r].path = <<"0", "1">>
        /\ pc[r] = "done"
        /\ Last(resp[r]).status = "OK"
        /\ store[keysPrefix \o <<"1">>] = Marshal(article[r])
        /\ article[r].Id = 1

\* Update u is about to write, past its existence check, while delete d of
\* the same identifier has completed with success and the key holds no
\* document (no create has followed the delete).
WritesAfterDelete(u, d) ==
    /\ req[u].op = "update"
    /\ pc[u] = "set"
    /\ req[d].op = "delete"
    /\ pc[d] = "done"
    /\ resp[d] = <<OkResponse(<<>>)>>
    /\ PathKey(u) = PathKey(d)
    /\ PathKey(u) \notin DOMAIN store

C28_GetReadsKeyOfUpdateAndDelete ==
    [][\A r \in Reqs :
        ( /\ req[r].op = "get"
          /\ pc[r] = "get"
          /\ Moved(r)
          /\ Atoi(req[r].path).ok
          /\ PathKey(r) \in DOMAIN store )
        => \/ resp'[r] = <<TransportError>>
           \/ resp'[r] = <<OkResponse(<<Unmarshal(store[PathKey(r)])>>)>>
      ]_vars

\* C29 (as stated): over every key space that successful create requests
\* have produced, the identifier allocation of a create succeeds (a
\* transport failure of the scan apart) and gives the article an identifier
\* strictly greater than every identifier in use: no parse failure for a
\* large identifier and no wrap-around of max+1.
C29_AllocationCoversUintRange ==
    [][\A r \in Reqs :
        (pc[r] = "scan" /\ Moved(r)) =>
           \/ resp'[r] # <<>> /\ Last(resp'[r]) = TransportError
           \/ /\ \A i \in 1..Len(resp'[r]) : resp'[r][i].error # "strconv"
              /\ \A k \in DOMAIN store : article'[r].Id > SuffixOf(k)
      ]_vars

\* C30 (as stated): a create request that has been answered with an error
\* has ended: the error is its one response and no store call of it is left
\* to run, the multi-set call included.
C30_RejectedCreateStops ==
    \A r \in Reqs :
        ( /\ req[r].op = "create"
          /\ \E i \in 1..Len(resp[r]) : resp[r][i].status # "OK" )
        => /\ pc[r] = "done"
           /\ Len(resp[r]) = 1

====
